---- MODULE Spec2Model ----
(***************************************************************************)
(* Transcript reconciliation of the chat overlay                           *)
(* (src/src/windows/OverlayWindow.tsx, first OverlayWindow definition),    *)
(* with the application shell that routes to it (src/src/App.tsx) and the  *)
(* setup wizard (src/unnamed/part_002).                                    *)
(*                                                                         *)
(* The React state of the component is the state of the model.  Every      *)
(* event handler, listener callback and promise continuation is one        *)
(* action: the host is single-threaded and every transcript mutation is a  *)
(* functional updater (setMessages(prev => ...)), so each one is applied   *)
(* atomically to the transcript left by the previous one.                  *)
(*                                                                         *)
(* Encodings.  A string is a sequence of one-character strings, so that    *)
(* String.prototype.trim is computed and not assumed.  The id of a message *)
(* is an integer: NullId stands for the JavaScript null of the temporary   *)
(* user message, ProvisionalId is the -1 of a streamed turn, and the ids   *)
(* the backend assigns are 1, 2, ...  created_at is left out: no handler   *)
(* reads it.                                                               *)
(***************************************************************************)
EXTENDS Integers, Sequences, FiniteSets, TLC

VARIABLES
    messages,        \* useState<ChatMessage[]>([])            (line 25)
    inputValue,      \* useState('')                           (line 26)
    isLoading,       \* useState(false)                        (line 27)
    error,           \* useState<string | null>(null)          (line 29)
    capturedImage,   \* useState<string | null>(null)          (line 30)
    historyLoad,     \* get_chat_history promise: "pending" | "settled"
    request,         \* the send_chat_message requests in flight, oldest first
    preSubmit,       \* history variable: the transcript just before the open exchange's submit
    onlyTurns,       \* history variable: only streamed turns touched the transcript since then
    lastOp,          \* history variable: the handler that ran last, with its payload
    \* App (src/src/App.tsx)
    windowParam,     \* searchParams.get('window')             (lines 35-36)
    appIsLoading,    \* isLoading, useState(true)              (line 26)
    setupComplete,   \* useState(false)                        (line 28)
    userName,        \* useState<string | null>(null)          (line 30)
    \* SetupWizard (src/unnamed/part_002)
    step,            \* useState<Step>('welcome')              (line 17)
    displayName,     \* useState('')                           (line 18)
    apiKey,          \* useState('')                           (line 21)
    vaultPath,       \* useState<string | null>(null)          (line 24)
    saving,          \* useState(false)                        (line 25)
    setupError,      \* error, useState<string | null>(null)   (line 26)
    awaited,         \* the invoke that finish is waiting for, NoCommand outside finish
    finishArgs,      \* the displayName, apiKey and vaultPath that the running finish closed over
    issued           \* history variable: the commands the latest finish has invoked, in order

overlayVars == <<messages, inputValue, isLoading, error, capturedImage, historyLoad,
                 request, preSubmit, onlyTurns>>
appVars == <<windowParam, appIsLoading, setupComplete, userName>>
wizardVars == <<step, displayName, apiKey, vaultPath, saving, setupError,
                awaited, finishArgs, issued>>
setupVars == <<appVars, wizardVars>>

vars == <<overlayVars, lastOp, setupVars>>

-----------------------------------------------------------------------------
(* Bounds of the model *)

\* The longest transcript to which a draft or a pushed message is still appended.
MaxLen == 3

-----------------------------------------------------------------------------
(* Values *)

NullId == 0
ProvisionalId == -1

NoError == "null"
NoImage == "null"

Errors == {"timeout", "offline"}
Images == {"png"}
\* The ids the backend has assigned to persisted messages.
ConfirmedIds == {1, 2}

\* The texts a user can type: blank ones, padded ones and plain ones.
InputTexts == { <<>>, <<" ">>, <<" ", "h", " ">> }
\* The texts the streamed-turn channel pushes.
TurnTexts == { <<"X">>, <<"Y">> }
\* The texts of persisted messages.
ReplyTexts == { <<"o", "k">> }

WhiteSpace == {" ", "\t", "\n", "\r"}

RECURSIVE TrimStart(_)
TrimStart(s) ==
    IF s = <<>> THEN <<>>
    ELSE IF Head(s) \in WhiteSpace THEN TrimStart(Tail(s)) ELSE s

RECURSIVE TrimEnd(_)
TrimEnd(s) ==
    IF s = <<>> THEN <<>>
    ELSE IF s[Len(s)] \in WhiteSpace THEN TrimEnd(SubSeq(s, 1, Len(s) - 1)) ELSE s

Trim(s) == TrimEnd(TrimStart(s))

\* interface ChatMessage
ChatMessage(id, role, content, image) ==
    [id |-> id, role |-> role, content |-> content, image_data |-> image]

\* The predicate of the two reconciliation filters (lines 222 and 231):
\* m.id !== null && m.id !== -1
IsSettled(m) == m.id # NullId /\ m.id # ProvisionalId

Last(s) == s[Len(s)]


\* What send_chat_message and the proactive channel deliver: persisted messages.
History1 == ChatMessage(1, "user", <<"h">>, NoImage)
History2 == ChatMessage(2, "assistant", <<"o", "k">>, NoImage)
Histories == { <<>>, <<History1, History2>> }

ProactiveMessages ==
    { ChatMessage(k, "assistant", c, NoImage) : k \in ConfirmedIds, c \in ReplyTexts }

\* What a handler was called with: the text of a streamed turn, the messages
\* of a history, of a proactive message or of a response, or an error.
NoPayload == [text |-> <<>>, entries |-> <<>>, err |-> NoError]
TextPayload(text) == [NoPayload EXCEPT !.text = text]
EntriesPayload(entries) == [NoPayload EXCEPT !.entries = entries]
ErrPayload(err) == [NoPayload EXCEPT !.err = err]

Op(name, payload) == [op |-> name, payload |-> payload]

-----------------------------------------------------------------------------
(* Values of the application shell and of the setup wizard *)

\* searchParams.get('window'): "null" stands for every value that is neither
\* 'overlay' nor 'widget', the absent parameter included.
WindowParams == {"overlay", "widget", "null"}

\* A string | null is a sequence of at most one string: <<>> is null.
NoName == <<>>
Names == { <<>>, <<"a">> }

ApiKeys == { <<>>, <<" ">>, <<"k">> }

NoPath == "null"
Paths == {"vault"}

NoCommand == "null"

\* part_002 line 14
STEPS == <<"welcome", "user", "hotkey", "api", "integrations", "done">>

\* part_002 lines 17-26: the wizard as mounted; no finish is running.
WizardMounted ==
    /\ step = "welcome"
    /\ displayName = <<>>
    /\ apiKey = <<>>
    /\ vaultPath = NoPath
    /\ saving = FALSE
    /\ setupError = NoError
    /\ awaited = NoCommand
    /\ finishArgs = [displayName |-> <<>>, apiKey |-> <<>>, vaultPath |-> NoPath]
    /\ issued = <<>>

\* App.tsx lines 80-82: the shell of the overlay window, its setup-status
\* check finished; the wizard is not part of this window.
AppRendersOverlay ==
    /\ windowParam = "overlay"
    /\ appIsLoading = FALSE
    /\ setupComplete = TRUE
    /\ userName = NoName
    /\ WizardMounted

-----------------------------------------------------------------------------
(* Initial state: the component as mounted, useEffect(loadChatHistory) fired *)

Init ==
    /\ AppRendersOverlay
    /\ messages = <<>>
    /\ inputValue = <<>>
    /\ isLoading = FALSE
    /\ error = NoError
    /\ capturedImage = NoImage
    /\ historyLoad = "pending"
    /\ request = <<>>
    /\ preSubmit = <<>>
    /\ onlyTurns = TRUE
    /\ lastOp = Op("mount", NoPayload)

-----------------------------------------------------------------------------
(* Transcript updaters: the functions handed to setMessages *)

\* A variant of Prev: the messages of the render in which the exchange was
\* submitted, as a handler that read the state variable itself would see them.
PrevFromClosure == IF request # <<>> THEN preSubmit ELSE messages

\* The argument React hands to a functional updater, setMessages(prev => ...):
\* the transcript left by the update applied before it.
Prev == messages

\* A variant of AppendDraft that forgets the attached image.
AppendDraftNoImage(prev, text, image) ==
    Append(prev, ChatMessage(NullId, "user", text, NoImage))

\* line 208: prev => [...prev, tempMessage]
AppendDraft(prev, text, image) ==
    Append(prev, ChatMessage(NullId, "user", text, image))

\* A variant of ResolveUpdater that drops the last entry instead of filtering.
ResolveUpdaterDropLast(prev, userMessage, assistantMessage) ==
    SubSeq(prev, 1, Len(prev) - 1) \o <<userMessage, assistantMessage>>

\* A variant of ResolveUpdater that forgets to sweep the unconfirmed entries.
ResolveUpdaterKeepAll(prev, userMessage, assistantMessage) ==
    prev \o <<userMessage, assistantMessage>>

\* lines 219-228: the updater of a successful exchange
ResolveUpdater(prev, userMessage, assistantMessage) ==
    SelectSeq(prev, IsSettled) \o <<userMessage, assistantMessage>>

\* A variant of FailUpdater that drops the last entry instead of filtering.
FailUpdaterDropLast(prev) == SubSeq(prev, 1, Len(prev) - 1)

\* A variant of FailUpdater that removes only the temporary user message.
FailUpdaterDraftOnly(prev) == SelectSeq(prev, LAMBDA m : m.id # NullId)

\* line 231: the updater of a failed exchange
FailUpdater(prev) == SelectSeq(prev, IsSettled)

\* A variant of TurnUpdater without the duplicate check.
TurnUpdaterNoDedup(prev, payload) ==
    Append(prev, ChatMessage(ProvisionalId, "assistant", payload, NoImage))

\* A variant of TurnUpdater that looks for the text in every provisional entry.
TurnUpdaterDedupAny(prev, payload) ==
    IF \E i \in 1..Len(prev) : prev[i].id = ProvisionalId /\ prev[i].content = payload
    THEN prev
    ELSE Append(prev, ChatMessage(ProvisionalId, "assistant", payload, NoImage))

\* lines 75-87: the updater of the assistant-reply-turn listener
TurnUpdater(prev, payload) ==
    IF prev # <<>> /\ Last(prev).id = ProvisionalId /\ Last(prev).content = payload
    THEN prev
    ELSE Append(prev, ChatMessage(ProvisionalId, "assistant", payload, NoImage))

\* A variant of ProactiveUpdater that also sweeps the unconfirmed entries.
ProactiveUpdaterSweep(prev, payload) ==
    Append(SelectSeq(prev, LAMBDA m : IsSettled(m) /\ m.id # payload.id), payload)

\* line 92: the updater of the assistant-message listener
ProactiveUpdater(prev, payload) ==
    Append(SelectSeq(prev, LAMBDA m : m.id # payload.id), payload)

\* A variant of HydrateUpdater that keeps what the transcript held.
HydrateUpdaterAppend(prev, history) == prev \o history

\* line 159: setMessages(history), a value and not a function of prev
HydrateUpdater(prev, history) == history

-----------------------------------------------------------------------------
(* Actions *)

\* lines 156-159: get_chat_history resolves, setMessages(history)
loadChatHistory(history) ==
    /\ historyLoad = "pending"
    /\ historyLoad' = "settled"
    /\ messages' = HydrateUpdater(messages, history)
    /\ onlyTurns' = IF request # <<>> THEN FALSE ELSE onlyTurns
    /\ lastOp' = Op("hydrate", EntriesPayload(history))
    /\ UNCHANGED setupVars
    /\ UNCHANGED <<inputValue, isLoading, error, capturedImage, request, preSubmit>>

\* lines 160-162: get_chat_history rejects, the error is only logged
loadChatHistoryFailed ==
    /\ historyLoad = "pending"
    /\ historyLoad' = "settled"
    /\ lastOp' = Op("hydrateFailed", NoPayload)
    /\ UNCHANGED setupVars
    /\ UNCHANGED <<messages, inputValue, isLoading, error, capturedImage, request, preSubmit, onlyTurns>>

\* line 421: onChange={(e) => setInputValue(e.target.value)}
\* The handler has no guard of its own: the disabled attribute of the textarea
\* (line 424) belongs to the view, and handleSendMessage checks isLoading itself.
onChange(value) ==
    /\ value # inputValue
    /\ inputValue' = value
    /\ lastOp' = Op("onChange", NoPayload)
    /\ UNCHANGED setupVars
    /\ UNCHANGED <<messages, isLoading, error, capturedImage, historyLoad, request, preSubmit, onlyTurns>>

\* lines 171-172: the snipped-image listener, setCapturedImage(event.payload)
onSnippedImage(image) ==
    /\ image # capturedImage
    /\ capturedImage' = image
    /\ lastOp' = Op("snippedImage", NoPayload)
    /\ UNCHANGED setupVars
    /\ UNCHANGED <<messages, inputValue, isLoading, error, historyLoad, request, preSubmit, onlyTurns>>

\* line 397: onClick={() => setCapturedImage(null)}, rendered only with an image
clearCapturedImage ==
    /\ capturedImage # NoImage
    /\ capturedImage' = NoImage
    /\ lastOp' = Op("clearImage", NoPayload)
    /\ UNCHANGED setupVars
    /\ UNCHANGED <<messages, inputValue, isLoading, error, historyLoad, request, preSubmit, onlyTurns>>

\* Variants of SendRejected: one that forgets the pending check, one that
\* forgets to trim.
SendRejectedBlankOnly == Trim(inputValue) = <<>>

SendRejectedNoTrim == inputValue = <<>> \/ isLoading

\* line 191: if (!inputValue.trim() || isLoading) return;
SendRejected == Trim(inputValue) = <<>> \/ isLoading

\* lines 190-217: handleSendMessage up to the await of send_chat_message
handleSendMessage ==
    /\ lastOp' = Op("submit", NoPayload)
    /\ UNCHANGED setupVars
    /\ IF SendRejected
       THEN UNCHANGED <<messages, inputValue, isLoading, error, capturedImage,
                        historyLoad, request, preSubmit, onlyTurns>>
       ELSE /\ Len(messages) < MaxLen
            /\ inputValue' = <<>>
            /\ capturedImage' = NoImage
            /\ error' = NoError
            /\ isLoading' = TRUE
            /\ messages' = AppendDraft(Prev, Trim(inputValue), capturedImage)
            /\ request' = Append(request, [message |-> Trim(inputValue),
                                            base64_image |-> capturedImage])
            /\ preSubmit' = messages
            /\ onlyTurns' = TRUE
            /\ UNCHANGED historyLoad

\* lines 219-228 and 233: send_chat_message resolved
onExchangeResolved(userMessage, assistantMessage) ==
    /\ request # <<>>
    /\ messages' = ResolveUpdater(Prev, userMessage, assistantMessage)
    /\ isLoading' = FALSE
    /\ request' = Tail(request)
    /\ preSubmit' = <<>>
    /\ onlyTurns' = TRUE
    /\ lastOp' = Op("resolved", EntriesPayload(<<userMessage, assistantMessage>>))
    /\ UNCHANGED setupVars
    /\ UNCHANGED <<inputValue, error, capturedImage, historyLoad>>

\* A variant of onExchangeFailed without the finally block.
onExchangeFailedNoFinally(err) ==
    /\ request # <<>>
    /\ error' = err
    /\ messages' = FailUpdater(Prev)
    /\ request' = Tail(request)
    /\ preSubmit' = <<>>
    /\ onlyTurns' = TRUE
    /\ lastOp' = Op("failed", ErrPayload(err))
    /\ UNCHANGED setupVars
    /\ UNCHANGED <<inputValue, isLoading, capturedImage, historyLoad>>

\* A variant of onExchangeFailed that only logs the error.
onExchangeFailedSilent(err) ==
    /\ request # <<>>
    /\ messages' = FailUpdater(Prev)
    /\ isLoading' = FALSE
    /\ request' = Tail(request)
    /\ preSubmit' = <<>>
    /\ onlyTurns' = TRUE
    /\ lastOp' = Op("failed", ErrPayload(err))
    /\ UNCHANGED setupVars
    /\ UNCHANGED <<inputValue, error, capturedImage, historyLoad>>

\* lines 229-233: send_chat_message rejected
onExchangeFailed(err) ==
    /\ request # <<>>
    /\ error' = err
    /\ messages' = FailUpdater(Prev)
    /\ isLoading' = FALSE
    /\ request' = Tail(request)
    /\ preSubmit' = <<>>
    /\ onlyTurns' = TRUE
    /\ lastOp' = Op("failed", ErrPayload(err))
    /\ UNCHANGED setupVars
    /\ UNCHANGED <<inputValue, capturedImage, historyLoad>>

\* lines 74-88: the assistant-reply-turn listener
onStreamedTurn(payload) ==
    /\ Len(messages) < MaxLen
    /\ messages' = TurnUpdater(Prev, payload)
    /\ lastOp' = Op("turn", TextPayload(payload))
    /\ UNCHANGED setupVars
    /\ UNCHANGED <<inputValue, isLoading, error, capturedImage, historyLoad, request, preSubmit, onlyTurns>>

\* lines 91-93: the assistant-message listener
onProactiveMessage(payload) ==
    /\ Len(messages) < MaxLen
    /\ messages' = ProactiveUpdater(Prev, payload)
    /\ onlyTurns' = IF request # <<>> THEN FALSE ELSE onlyTurns
    /\ lastOp' = Op("proactive", EntriesPayload(<<payload>>))
    /\ UNCHANGED setupVars
    /\ UNCHANGED <<inputValue, isLoading, error, capturedImage, historyLoad, request, preSubmit>>

\* The response of send_chat_message to the request in flight: the persisted
\* user message and the assistant's reply, under two distinct ids.
Responses(req) ==
    { r \in { << ChatMessage(u, "user", req.message, req.base64_image),
                 ChatMessage(a, "assistant", c, NoImage) >> :
                u \in ConfirmedIds, a \in ConfirmedIds, c \in ReplyTexts } :
        r[1].id # r[2].id }

Next ==
    \/ \E history \in Histories : loadChatHistory(history)
    \/ loadChatHistoryFailed
    \/ \E value \in InputTexts : onChange(value)
    \/ \E image \in Images : onSnippedImage(image)
    \/ clearCapturedImage
    \/ handleSendMessage
    \/ /\ request # <<>>
       /\ \E r \in Responses(request[1]) : onExchangeResolved(r[1], r[2])
    \/ \E err \in Errors : onExchangeFailed(err)
    \/ \E payload \in TurnTexts : onStreamedTurn(payload)
    \/ \E payload \in ProactiveMessages : onProactiveMessage(payload)

Spec == Init /\ [][Next]_vars

\* The promise of send_chat_message settles: it resolves or it rejects.
ExchangeSettles ==
    \/ /\ request # <<>>
       /\ \E r \in Responses(request[1]) : onExchangeResolved(r[1], r[2])
    \/ \E err \in Errors : onExchangeFailed(err)

\* Spec under the assumption that the chat service answers every request.
FairSpec == Spec /\ WF_vars(ExchangeSettles)

-----------------------------------------------------------------------------
(* The earlier overlay: the second OverlayWindow definition of the file,
   lines 465-779. It has the same state and no push listeners, and it settles
   an exchange by dropping the last entry of the transcript. *)

\* lines 588-592: prev => [...prev.slice(0, -1), user_message, assistant_message]
ResolveUpdaterEarlier(prev, userMessage, assistantMessage) ==
    SubSeq(prev, 1, Len(prev) - 1) \o <<userMessage, assistantMessage>>

\* line 595: prev => prev.slice(0, -1)
FailUpdaterEarlier(prev) == SubSeq(prev, 1, Len(prev) - 1)

\* lines 532-535: the same statements as lines 156-159
loadChatHistoryEarlier(history) == loadChatHistory(history)

\* lines 536-538: the same statements as lines 160-162
loadChatHistoryFailedEarlier == loadChatHistoryFailed

\* line 760: onChange={(e) => setInputValue(e.target.value)}
onChangeEarlier(value) == onChange(value)

\* lines 541-557: handleCaptureScreen, whose button is disabled while an
\* exchange is pending (line 744). The overlay is hidden from line 545 to line
\* 550, so no input handler runs between the click and setCapturedImage(b64).
handleCaptureScreen(image) ==
    /\ ~isLoading
    /\ image # capturedImage
    /\ capturedImage' = image
    /\ lastOp' = Op("capture", NoPayload)
    /\ UNCHANGED setupVars
    /\ UNCHANGED <<messages, inputValue, isLoading, error, historyLoad, request, preSubmit, onlyTurns>>

\* line 722: onClick={() => setCapturedImage(null)}
clearCapturedImageEarlier == clearCapturedImage

\* lines 559-585: the same statements as lines 190-217
handleSendMessageEarlier == handleSendMessage

\* lines 588-592 and 597: send_chat_message resolved
onExchangeResolvedEarlier(userMessage, assistantMessage) ==
    /\ request # <<>>
    /\ messages' = ResolveUpdaterEarlier(Prev, userMessage, assistantMessage)
    /\ isLoading' = FALSE
    /\ request' = Tail(request)
    /\ preSubmit' = <<>>
    /\ onlyTurns' = TRUE
    /\ lastOp' = Op("resolved", EntriesPayload(<<userMessage, assistantMessage>>))
    /\ UNCHANGED setupVars
    /\ UNCHANGED <<inputValue, error, capturedImage, historyLoad>>

\* lines 593-597: send_chat_message rejected
onExchangeFailedEarlier(err) ==
    /\ request # <<>>
    /\ error' = err
    /\ messages' = FailUpdaterEarlier(Prev)
    /\ isLoading' = FALSE
    /\ request' = Tail(request)
    /\ preSubmit' = <<>>
    /\ onlyTurns' = TRUE
    /\ lastOp' = Op("failed", ErrPayload(err))
    /\ UNCHANGED setupVars
    /\ UNCHANGED <<inputValue, capturedImage, historyLoad>>

NextEarlier ==
    \/ \E history \in Histories : loadChatHistoryEarlier(history)
    \/ loadChatHistoryFailedEarlier
    \/ \E value \in InputTexts : onChangeEarlier(value)
    \/ \E image \in Images : handleCaptureScreen(image)
    \/ clearCapturedImageEarlier
    \/ handleSendMessageEarlier
    \/ /\ request # <<>>
       /\ \E r \in Responses(request[1]) : onExchangeResolvedEarlier(r[1], r[2])
    \/ \E err \in Errors : onExchangeFailedEarlier(err)

SpecEarlier == Init /\ [][NextEarlier]_vars

-----------------------------------------------------------------------------
(* The overlay once the history load has settled, on a backend that pushes
   nothing: no assistant-reply-turn and no assistant-message event. *)

\* The state that lines 156-162 leave when they run before any other handler.
InitHydrated ==
    /\ AppRendersOverlay
    /\ \E history \in Histories :
          /\ messages = HydrateUpdater(<<>>, history)
          /\ lastOp = Op("hydrate", EntriesPayload(history))
    /\ inputValue = <<>>
    /\ isLoading = FALSE
    /\ error = NoError
    /\ capturedImage = NoImage
    /\ historyLoad = "settled"
    /\ request = <<>>
    /\ preSubmit = <<>>
    /\ onlyTurns = TRUE

NextNoPush ==
    \/ \E value \in InputTexts : onChange(value)
    \/ \E image \in Images : onSnippedImage(image)
    \/ clearCapturedImage
    \/ handleSendMessage
    \/ /\ request # <<>>
       /\ \E r \in Responses(request[1]) : onExchangeResolved(r[1], r[2])
    \/ \E err \in Errors : onExchangeFailed(err)

SpecNoPush == InitHydrated /\ [][NextNoPush]_vars

-----------------------------------------------------------------------------
(* The application shell (src/src/App.tsx) and the setup wizard
   (src/unnamed/part_002).  The hotkey fields and the API key test of the
   wizard are left out: finish passes the hotkey on as it is, and no handler
   modelled here reads apiValid or testingApi. *)

\* The overlay as mounted and left alone: its handlers are not part of the
\* behaviours of the shell.
OverlayAtRest ==
    /\ messages = <<>>
    /\ inputValue = <<>>
    /\ isLoading = FALSE
    /\ error = NoError
    /\ capturedImage = NoImage
    /\ historyLoad = "pending"
    /\ request = <<>>
    /\ preSubmit = <<>>
    /\ onlyTurns = TRUE

\* App.tsx lines 26-36 and 55: the shell as mounted, check_setup_status invoked
InitApp ==
    /\ OverlayAtRest
    /\ windowParam \in WindowParams
    /\ appIsLoading = TRUE
    /\ setupComplete = FALSE
    /\ userName = NoName
    /\ WizardMounted
    /\ lastOp = Op("mount", NoPayload)

\* A variant of Rendered that looks at the setup status before the window.
RenderedSetupFirst ==
    IF appIsLoading THEN "loading"
    ELSE IF ~setupComplete THEN "SetupWizard"
    ELSE IF windowParam = "overlay" THEN "OverlayWindow"
    ELSE IF windowParam = "widget" THEN "WidgetWindow"
    ELSE "MainWindow"

\* App.tsx lines 64-95: what App returns
Rendered ==
    IF appIsLoading THEN "loading"
    ELSE IF windowParam = "overlay" THEN "OverlayWindow"
    ELSE IF windowParam = "widget" THEN "WidgetWindow"
    ELSE IF ~setupComplete THEN "SetupWizard"
    ELSE "MainWindow"

\* The answers of check_setup_status: setup_complete and user_profile, the
\* profile being null (<<>>) or a record with its display_name.
SetupStatuses ==
    [setup_complete : BOOLEAN, user_profile : {<<>>} \cup { <<n>> : n \in Names }]

\* App.tsx line 45: status.user_profile?.display_name || null
ProfileName(user_profile) ==
    IF user_profile = <<>> \/ user_profile[1] = <<>> THEN NoName ELSE user_profile

\* App.tsx lines 43-45 and 51: check_setup_status resolved
checkSetupStatusResolved(status) ==
    /\ appIsLoading
    /\ setupComplete' = status.setup_complete
    /\ userName' = ProfileName(status.user_profile)
    /\ appIsLoading' = FALSE
    /\ lastOp' = Op("status", NoPayload)
    /\ UNCHANGED <<overlayVars, windowParam, wizardVars>>

\* App.tsx lines 46-51: check_setup_status rejected
checkSetupStatusRejected ==
    /\ appIsLoading
    /\ setupComplete' = FALSE
    /\ appIsLoading' = FALSE
    /\ lastOp' = Op("statusFailed", NoPayload)
    /\ UNCHANGED <<overlayVars, windowParam, userName, wizardVars>>

\* part_002 line 28: STEPS.indexOf(step), counted from 1
stepIndex == CHOOSE i \in 1..Len(STEPS) : STEPS[i] = step

\* A variant of StepAfter that starts over behind the last step.
StepAfterWrap ==
    IF stepIndex + 1 <= Len(STEPS) THEN STEPS[stepIndex + 1] ELSE STEPS[1]

\* part_002 lines 31-32: the step that next sets
StepAfter == IF stepIndex + 1 <= Len(STEPS) THEN STEPS[stepIndex + 1] ELSE step

\* part_002 lines 37-38: the step that prev sets
StepBefore == IF stepIndex - 1 >= 1 THEN STEPS[stepIndex - 1] ELSE step

\* part_002 lines 30-34.  The function has no guard of its own: where the
\* buttons are rendered and enabled (lines 254-266) only restricts when the
\* user can call it.  The payload records the step it was called on.
next ==
    /\ Rendered = "SetupWizard"
    /\ step' = StepAfter
    /\ setupError' = NoError
    /\ lastOp' = Op("next", TextPayload(<<step>>))
    /\ UNCHANGED <<overlayVars, appVars, displayName, apiKey, vaultPath, saving,
                   awaited, finishArgs, issued>>

\* part_002 lines 36-40
prev ==
    /\ Rendered = "SetupWizard"
    /\ step' = StepBefore
    /\ setupError' = NoError
    /\ lastOp' = Op("prev", TextPayload(<<step>>))
    /\ UNCHANGED <<overlayVars, appVars, displayName, apiKey, vaultPath, saving,
                   awaited, finishArgs, issued>>

\* part_002 line 121: onChange={(e) => setDisplayName(e.target.value)}
setDisplayName(value) ==
    /\ Rendered = "SetupWizard"
    /\ value # displayName
    /\ displayName' = value
    /\ lastOp' = Op("setDisplayName", NoPayload)
    /\ UNCHANGED <<overlayVars, appVars, step, apiKey, vaultPath, saving, setupError,
                   awaited, finishArgs, issued>>

\* part_002 line 180: setApiKey(e.target.value)
setApiKey(value) ==
    /\ Rendered = "SetupWizard"
    /\ value # apiKey
    /\ apiKey' = value
    /\ lastOp' = Op("setApiKey", NoPayload)
    /\ UNCHANGED <<overlayVars, appVars, step, displayName, vaultPath, saving, setupError,
                   awaited, finishArgs, issued>>

\* part_002 lines 61-68: the directory dialog of selectVault has returned a
\* path; a cancelled dialog (null) changes nothing.
selectVault(path) ==
    /\ Rendered = "SetupWizard"
    /\ path # vaultPath
    /\ vaultPath' = path
    /\ lastOp' = Op("selectVault", NoPayload)
    /\ UNCHANGED <<overlayVars, appVars, step, displayName, apiKey, saving, setupError,
                   awaited, finishArgs, issued>>

\* A variant of AfterHotkey that saves the API key whenever one was typed.
AfterHotkeyNoTrim(args) ==
    IF args.apiKey # <<>> THEN "setup_save_api_key"
    ELSE IF args.vaultPath # NoPath THEN "setup_save_integration"
    ELSE "complete_setup"

\* part_002 lines 75-81: what finish invokes once setup_save_hotkey resolved
AfterHotkey(args) ==
    IF Trim(args.apiKey) # <<>> THEN "setup_save_api_key"
    ELSE IF args.vaultPath # NoPath THEN "setup_save_integration"
    ELSE "complete_setup"

\* part_002 lines 73-81: the command finish invokes once the one it awaits
\* has resolved, NoCommand behind complete_setup.
CommandAfter(command, args) ==
    CASE command = "setup_save_profile" -> "setup_save_hotkey"
      [] command = "setup_save_hotkey" -> AfterHotkey(args)
      [] command = "setup_save_api_key" ->
            IF args.vaultPath # NoPath THEN "setup_save_integration" ELSE "complete_setup"
      [] command = "setup_save_integration" -> "complete_setup"
      [] OTHER -> NoCommand

\* part_002 line 84: `Setup failed: ${err}`
SetupFailed(err) == "Setup failed: " \o err

\* part_002 lines 70-73: finish up to the first await.  The button is
\* disabled while saving (line 259), so one finish runs at a time.
finish ==
    /\ Rendered = "SetupWizard"
    /\ ~saving
    /\ saving' = TRUE
    /\ setupError' = NoError
    /\ finishArgs' = [displayName |-> displayName, apiKey |-> apiKey,
                      vaultPath |-> vaultPath]
    /\ awaited' = "setup_save_profile"
    /\ issued' = <<"setup_save_profile">>
    /\ lastOp' = Op("finish", NoPayload)
    /\ UNCHANGED <<overlayVars, appVars, step, displayName, apiKey, vaultPath>>

\* part_002 lines 73-82 and 85-87, App.tsx lines 59-62: the awaited invoke
\* resolved.  finish invokes the next command; behind complete_setup it calls
\* onComplete(displayName), which is handleSetupComplete, and reaches finally.
onInvokeResolved ==
    /\ awaited # NoCommand
    /\ lastOp' = Op("invokeResolved", NoPayload)
    /\ IF CommandAfter(awaited, finishArgs) # NoCommand
       THEN /\ awaited' = CommandAfter(awaited, finishArgs)
            /\ issued' = Append(issued, CommandAfter(awaited, finishArgs))
            /\ UNCHANGED <<overlayVars, appVars, step, displayName, apiKey, vaultPath,
                           saving, setupError, finishArgs>>
       ELSE /\ setupComplete' = TRUE
            /\ userName' = <<finishArgs.displayName>>
            /\ saving' = FALSE
            /\ awaited' = NoCommand
            /\ UNCHANGED <<overlayVars, windowParam, appIsLoading, step, displayName,
                           apiKey, vaultPath, setupError, finishArgs, issued>>

\* part_002 lines 83-87: the awaited invoke rejected
onInvokeRejected(err) ==
    /\ awaited # NoCommand
    /\ setupError' = SetupFailed(err)
    /\ saving' = FALSE
    /\ awaited' = NoCommand
    /\ lastOp' = Op("invokeRejected", ErrPayload(err))
    /\ UNCHANGED <<overlayVars, appVars, step, displayName, apiKey, vaultPath,
                   finishArgs, issued>>

NextApp ==
    \/ \E status \in SetupStatuses : checkSetupStatusResolved(status)
    \/ checkSetupStatusRejected
    \/ next
    \/ prev
    \/ \E value \in Names : setDisplayName(value)
    \/ \E value \in ApiKeys : setApiKey(value)
    \/ \E path \in Paths : selectVault(path)
    \/ finish
    \/ onInvokeResolved
    \/ \E err \in Errors : onInvokeRejected(err)

SpecApp == InitApp /\ [][NextApp]_vars

-----------------------------------------------------------------------------
(* Vocabulary of the properties *)

IsDraft(m) == m.id = NullId
IsProvisional(m) == m.id = ProvisionalId
IsConfirmed(m) == m.id >= 1

Blank(text) == \A i \in 1..Len(text) : text[i] \in WhiteSpace

DraftCount(t) == Cardinality({ i \in 1..Len(t) : IsDraft(t[i]) })

\* The confirmed entries of a transcript, in order.
ConfirmedPart(t) == SelectSeq(t, IsConfirmed)

\* No two entries of the transcript carry the same confirmed id.
UniqueIds(t) ==
    \A i, j \in 1..Len(t) : (IsConfirmed(t[i]) /\ t[i].id = t[j].id) => i = j

\* The step just taken ran the named handler.
Ran(name) == lastOp'.op = name

-----------------------------------------------------------------------------
(* Properties *)

\* C1: when an exchange fails and only streamed turns were delivered since
\* its submit, the transcript is again the transcript from just before the
\* submit, and error is the error of the failure.
C1_FailureRollback ==
    [][ (Ran("failed") /\ onlyTurns)
        => (messages' = preSubmit /\ error' = lastOp'.payload.err) ]_vars

\* C2: after a successful resolution the transcript holds no draft and no
\* provisional entry, ends with the user entry then the assistant entry, and
\* before them holds exactly the confirmed entries it held before, in order.
C2_Resolution ==
    [][ Ran("resolved")
        => LET n == Len(messages')
           IN /\ \A i \in 1..n : ~IsDraft(messages'[i]) /\ ~IsProvisional(messages'[i])
              /\ n >= 2
              /\ messages'[n - 1] = lastOp'.payload.entries[1]
              /\ messages'[n] = lastOp'.payload.entries[2]
              /\ SubSeq(messages', 1, n - 2) = ConfirmedPart(messages) ]_vars

\* A resolution that removed nothing but the draft and kept the history.
C2_Witness ==
    /\ lastOp.op = "resolved"
    /\ Len(messages) = 4
    /\ messages[1] = History1
    /\ messages[2] = History2
    /\ messages[3].role = "user"
    /\ messages[4].role = "assistant"

C4_DraftIsLast ==
    /\ DraftCount(messages) <= 1
    /\ (DraftCount(messages) = 1 => IsDraft(Last(messages)))

\* C4 (amended): the transcript holds at most one draft, and the draft is the
\* last entry when the submit appends it; entries pushed later follow it.
C4_AtMostOneDraft ==
    [][ /\ DraftCount(messages) <= 1
        /\ DraftCount(messages') <= 1
        /\ (Ran("submit") /\ messages' # messages) => IsDraft(Last(messages')) ]_vars

\* A draft followed by a streamed turn.
C4_Witness ==
    /\ Len(messages) >= 2
    /\ IsDraft(messages[Len(messages) - 1])
    /\ IsProvisional(Last(messages))

\* C5: a submit is refused only when the text is blank and no image is
\* attached, or when an exchange is pending.
C5_RejectedOnlyWhenEmptyOrPending ==
    [][ (Ran("submit") /\ messages' = messages)
        => ((Blank(inputValue) /\ capturedImage = NoImage) \/ isLoading) ]_vars

\* C6: a submit with a blank text and no image changes nothing.
C6_ValidationNoOp ==
    [][ (Ran("submit") /\ Blank(inputValue) /\ capturedImage = NoImage)
        => UNCHANGED <<messages, isLoading, error, capturedImage, inputValue,
                       request>> ]_vars

\* A whitespace-only submit was just refused while idle.
C6_Witness ==
    /\ lastOp.op = "submit"
    /\ ~isLoading
    /\ inputValue = <<" ">>
    /\ capturedImage = NoImage
    /\ request = <<>>

C8_UpsertInPlace ==
    [][ Ran("proactive")
        => LET p == lastOp'.payload.entries[1]
           IN IF \E i \in 1..Len(messages) : messages[i].id = p.id
              THEN /\ Len(messages') = Len(messages)
                   /\ \A i \in 1..Len(messages) :
                        messages'[i] = IF messages[i].id = p.id THEN p
                                       ELSE messages[i]
              ELSE messages' = Append(messages, p) ]_vars

\* C9: no operation after hydration changes the relative order of two
\* confirmed entries that are in the transcript before and after it.
C9_NoReordering ==
    [][ (/\ lastOp'.op \in {"submit", "turn", "proactive", "resolved", "failed"}
         /\ UniqueIds(messages) /\ UniqueIds(messages'))
        => \A i, j \in 1..Len(messages) : \A k, l \in 1..Len(messages') :
             (/\ i < j
              /\ IsConfirmed(messages[i]) /\ IsConfirmed(messages[j])
              /\ messages'[k].id = messages[i].id
              /\ messages'[l].id = messages[j].id) => k < l ]_vars

\* C10: applying the resolution a second time, with the same two entries,
\* leaves the transcript as the first application left it.
C10_ResolveIdempotent ==
    lastOp.op = "resolved"
        => ResolveUpdater(messages, lastOp.payload.entries[1],
                          lastOp.payload.entries[2]) = messages

\* C11: a history load that succeeds makes the transcript exactly the history
\* it returned, whatever the transcript held; one that fails leaves the
\* transcript as it was.
C11_HydrateRoundTrip ==
    [][ /\ Ran("hydrate") => (/\ messages' = lastOp'.payload.entries
                              /\ Len(messages') = Len(lastOp'.payload.entries))
        /\ Ran("hydrateFailed") => messages' = messages ]_vars

\* The history was loaded while an exchange was pending, over a transcript
\* that held the draft of that exchange.
C11_Witness ==
    /\ lastOp.op = "hydrate"
    /\ isLoading
    /\ lastOp.payload.entries = <<History1, History2>>
    /\ messages = <<History1, History2>>

\* a is b with some entries left out, the others in the order of b.
RECURSIVE IsSubseq(_, _)
IsSubseq(a, b) ==
    IF a = <<>> THEN TRUE
    ELSE IF b = <<>> THEN FALSE
    ELSE IF Head(a) = Head(b) THEN IsSubseq(Tail(a), Tail(b))
    ELSE IsSubseq(a, Tail(b))

\* The step put k new entries at the tail, behind entries that were all in
\* the transcript before, in the order they had.
AddedAtTail(k) ==
    /\ Len(messages') >= k
    /\ IsSubseq(SubSeq(messages', 1, Len(messages') - k), messages)

\* The step applied the history load; it does so at most once.
HydratesOnce ==
    /\ (Ran("hydrate") \/ Ran("hydrateFailed")) => historyLoad = "pending"
    /\ historyLoad = "settled" => historyLoad' = "settled"

\* Every entry a step adds goes to the tail, behind every entry that stays.
AppendsFollowHistory ==
    /\ (Ran("submit") /\ messages' # messages)
         => (AddedAtTail(1) /\ IsDraft(Last(messages')))
    /\ (Ran("turn") /\ messages' # messages)
         => (AddedAtTail(1) /\ IsProvisional(Last(messages')))
    /\ Ran("proactive")
         => (AddedAtTail(1) /\ Last(messages') = lastOp'.payload.entries[1])
    /\ Ran("resolved")
         => (AddedAtTail(2) /\ SubSeq(messages', Len(messages') - 1, Len(messages'))
                                 = lastOp'.payload.entries)

\* C12: the history load is applied once and before every append,
\* and every added entry ends up behind every historical entry.
C12_HydrationPrecedesAppends ==
    [][ /\ HydratesOnce
        /\ AppendsFollowHistory
        /\ (/\ lastOp'.op \in {"submit", "turn", "proactive", "resolved"}
            /\ messages' # messages) => historyLoad = "settled" ]_vars

\* C13: isLoading is set only by an accepted submit and cleared only by the
\* resolution or the failure of the exchange, which takes its request out of
\* flight; a pending exchange eventually ends, and while idle a submit with a
\* non-blank text is accepted.
C13_LifeCycle ==
    /\ [][ /\ (~isLoading /\ isLoading')
             => (Ran("submit") /\ request = <<>> /\ Len(request') = 1)
           /\ (isLoading /\ ~isLoading')
             => ((Ran("resolved") \/ Ran("failed")) /\ Len(request) = 1
                   /\ request' = <<>>)
           /\ (Ran("resolved") \/ Ran("failed")) => (isLoading /\ ~isLoading')
           /\ (Ran("submit") /\ ~isLoading /\ ~Blank(inputValue)) => isLoading'
         ]_vars
    /\ (isLoading ~> ~isLoading)

\* A second exchange is pending: the transcript holds the persisted user
\* message of an earlier exchange, sent with an image, and a new draft.
C13_Witness ==
    /\ isLoading
    /\ lastOp.op = "submit"
    /\ Len(messages) = 3
    /\ IsConfirmed(messages[1]) /\ messages[1].image_data = "png"
    /\ IsDraft(messages[3])

\* C14: a failed exchange removes the drafts and the provisional entries and
\* nothing else: the confirmed entries stay, in their order, and no entry is
\* added.
C14_FailureKeepsConfirmed ==
    [][ Ran("failed")
        => /\ IsSubseq(messages', messages)
           /\ \A i \in 1..Len(messages') : IsConfirmed(messages'[i])
           /\ Len(messages') = Cardinality({ i \in 1..Len(messages) :
                                               IsConfirmed(messages[i]) }) ]_vars

\* An exchange has failed before the history was loaded, and the two
\* proactive messages the transcript held are still in it.
C14_Witness ==
    /\ lastOp.op = "failed"
    /\ historyLoad = "pending"
    /\ Len(messages) = 2
    /\ \A i \in 1..2 : IsConfirmed(messages[i]) /\ messages[i].role = "assistant"

\* C15: while no exchange is pending the transcript holds no draft.
C15_NoOrphanedDraft ==
    ~isLoading => DraftCount(messages) = 0

\* An exchange has failed: none is pending, the error is shown and the
\* transcript holds no draft.
C15_Witness ==
    /\ lastOp.op = "failed"
    /\ ~isLoading
    /\ error = "offline"
    /\ messages = <<>>

\* The provisional entries of a transcript, in order.
ProvisionalPart(t) == SelectSeq(t, IsProvisional)

\* The entry a streamed turn with this text appends.
TurnEntry(text) == ChatMessage(ProvisionalId, "assistant", text, NoImage)

\* The last entry is the provisional entry of a turn with this text.
EndsWithTurn(t, text) ==
    t # <<>> /\ IsProvisional(Last(t)) /\ Last(t).content = text

\* C16: every mutation of the transcript by a streamed turn, a proactive
\* message or the result of the exchange is computed from the transcript the
\* mutation before it left, so nothing an earlier one did is lost.
C16_SerializedMutation ==
    [][ /\ Ran("turn")
          => \/ messages' = messages
             \/ messages' = Append(messages, TurnEntry(lastOp'.payload.text))
        /\ Ran("proactive")
          => LET p == lastOp'.payload.entries[1]
             IN messages' = Append(SelectSeq(messages, LAMBDA m : m.id # p.id), p)
        /\ Ran("resolved")
          => messages' = ConfirmedPart(messages) \o lastOp'.payload.entries
        /\ Ran("failed")
          => messages' = ConfirmedPart(messages) ]_vars

\* While an exchange is pending and the history is not loaded yet, a
\* proactive message and then a streamed turn were delivered: the transcript
\* holds the draft, the proactive message and the turn.
C16_Witness ==
    /\ isLoading
    /\ historyLoad = "pending"
    /\ ~onlyTurns
    /\ lastOp.op = "turn"
    /\ Len(messages) = 3
    /\ IsDraft(messages[1])
    /\ IsConfirmed(messages[2])
    /\ IsProvisional(messages[3])

TurnsOutliveAllBut(removers) ==
    /\ (Ran("turn") /\ ~isLoading)
         => EndsWithTurn(messages', lastOp'.payload.text)
    /\ lastOp'.op \notin removers
         => IsSubseq(ProvisionalPart(messages), ProvisionalPart(messages'))
    /\ (Ran("resolved") \/ Ran("failed")) => ProvisionalPart(messages') = <<>>

\* C18: a turn streamed while no exchange is pending is appended,
\* and a provisional entry stays until an exchange resolves or fails.
C18_IdleTurnStaysUntilExchangeEnds ==
    [][ TurnsOutliveAllBut({"resolved", "failed"}) ]_vars

\* C19: an accepted submit appends one draft with the trimmed text and the
\* attached image, sets isLoading, clears the input, the image and the error,
\* and sends one request with the same text and image.
C19_AcceptedSubmit ==
    [][ (Ran("submit") /\ ~isLoading /\ ~Blank(inputValue))
        => /\ messages' = Append(messages, [id |-> NullId, role |-> "user",
                                            content |-> Trim(inputValue),
                                            image_data |-> capturedImage])
           /\ ~Blank(Last(messages').content)
           /\ Head(Last(messages').content) \notin WhiteSpace
           /\ Last(Last(messages').content) \notin WhiteSpace
           /\ isLoading'
           /\ inputValue' = <<>>
           /\ capturedImage' = NoImage
           /\ error' = NoError
           /\ request' = Append(request, [message |-> Last(messages').content,
                                          base64_image |-> capturedImage]) ]_vars

\* A submit of " h " with an attached image was just accepted.
C19_Witness ==
    /\ lastOp.op = "submit"
    /\ isLoading
    /\ IsDraft(Last(messages))
    /\ Last(messages).content = <<"h">>
    /\ Last(messages).image_data = "png"
    /\ request = << [message |-> <<"h">>, base64_image |-> "png"] >>

\* C20: in the earlier overlay, the entry that the resolution or the failure
\* of an exchange drops is the draft of that exchange, and every confirmed
\* entry of the transcript is still in it afterwards.
C20_EarlierDropsOnlyTheDraft ==
    [][ (Ran("resolved") \/ Ran("failed"))
        => /\ messages # <<>> => IsDraft(Last(messages))
           /\ IsSubseq(ConfirmedPart(messages), messages') ]_vars

\* The entry is one of the entries of the transcript.
InTranscript(m, t) == \E i \in 1..Len(t) : t[i] = m

\* C21: when the history load is applied, every entry that a submit, a
\* streamed turn or a proactive message put in the transcript before it is
\* still in the transcript.
C21_HydrationKeepsEntries ==
    [][ Ran("hydrate")
        => \A i \in 1..Len(messages) : InTranscript(messages[i], messages') ]_vars

\* The position of the draft in a transcript, 0 without a draft.
DraftIndex(t) ==
    IF DraftCount(t) = 0 THEN 0 ELSE CHOOSE i \in 1..Len(t) : IsDraft(t[i])

\* The confirmed ids the transcript held when the pending exchange was
\* submitted: those before the draft, or all of them without a draft.
IdsBeforeDraft(t) ==
    { t[i].id : i \in { j \in 1..Len(t) :
                          IsConfirmed(t[j]) /\ (DraftIndex(t) = 0 \/ j < DraftIndex(t)) } }

\* The response of the step carries ids the backend had not handed out when
\* the exchange was submitted.
FreshResponse ==
    \A i \in 1..Len(lastOp'.payload.entries) :
        lastOp'.payload.entries[i].id \notin IdsBeforeDraft(messages)

\* C22: no step makes two entries of the transcript share a confirmed id,
\* also not the resolution of an exchange during which a proactive message
\* delivered an entry with the id of one of the two entries of its response.
C22_UniqueConfirmedIds ==
    [][ (UniqueIds(messages) /\ (Ran("resolved") => FreshResponse))
        => UniqueIds(messages') ]_vars

\* The step is a submit that was accepted.
AcceptedSubmit == Ran("submit") /\ ~isLoading /\ isLoading'

\* C23: the error is set by the failure of an exchange and by nothing else,
\* cleared by an accepted submit and by nothing else, null after a resolution
\* and left as it is by every other step; so it is non-null exactly when the
\* exchange that ended last failed and no submit was accepted since.
C23_ErrorLifeCycle ==
    [][ /\ Ran("failed") => error' = lastOp'.payload.err /\ error' # NoError
        /\ AcceptedSubmit => error' = NoError
        /\ Ran("resolved") => error' = NoError
        /\ ~(Ran("failed") \/ AcceptedSubmit) => error' = error ]_vars

\* The error of a failed exchange is still shown after a rejected submit.
C23_Witness ==
    /\ lastOp.op = "submit"
    /\ ~isLoading
    /\ error = "timeout"
    /\ Blank(inputValue)
    /\ capturedImage = "png"

\* The entries of a transcript that are not confirmed, in order.
UnconfirmedPart(t) == SelectSeq(t, LAMBDA m : ~IsConfirmed(m))

\* C24: a streamed turn and a proactive message change nothing but the
\* transcript; a streamed turn keeps every entry where it is, and a proactive
\* message keeps every draft and every provisional entry.
C24_PushFrame ==
    [][ /\ (Ran("turn") \/ Ran("proactive"))
             => UNCHANGED <<isLoading, error, inputValue, capturedImage>>
        /\ Ran("turn")
             => /\ Len(messages') >= Len(messages)
                /\ SubSeq(messages', 1, Len(messages)) = messages
        /\ Ran("proactive")
             => UnconfirmedPart(messages') = UnconfirmedPart(messages) ]_vars

\* A proactive message was delivered behind the draft and a streamed turn of
\* a pending exchange, with a text in the input.
C24_Witness ==
    /\ lastOp.op = "proactive"
    /\ isLoading
    /\ inputValue # <<>>
    /\ Len(messages) = 3
    /\ IsDraft(messages[1])
    /\ IsProvisional(messages[2])
    /\ IsConfirmed(messages[3])

\* C25: once the history load has settled and without push events, every
\* submit, resolution and failure of the overlay is also the step the earlier
\* overlay takes from the same state on the same input, so the two have the
\* same transcript, isLoading and error after every step.
C25_VariantsAgree ==
    [][ /\ Ran("submit") => handleSendMessageEarlier
        /\ Ran("resolved")
             => onExchangeResolvedEarlier(lastOp'.payload.entries[1],
                                          lastOp'.payload.entries[2])
        /\ Ran("failed") => onExchangeFailedEarlier(lastOp'.payload.err) ]_vars

\* An exchange submitted behind the loaded history has resolved: the
\* transcript is the history and the two messages of the response.
C25_Witness ==
    /\ lastOp.op = "resolved"
    /\ ~isLoading
    /\ Len(messages) = 4
    /\ SubSeq(messages, 1, 2) = <<History1, History2>>
    /\ SubSeq(messages, 3, 4) = lastOp.payload.entries

\* The commands a finish that closed over these values has to invoke, in
\* order.
ExpectedCalls(args) ==
    <<"setup_save_profile", "setup_save_hotkey">>
    \o (IF Blank(args.apiKey) THEN <<>> ELSE <<"setup_save_api_key">>)
    \o (IF args.vaultPath = NoPath THEN <<>> ELSE <<"setup_save_integration">>)
    \o <<"complete_setup">>

\* The step called onComplete.
OnCompleteCalled == setupComplete' /\ ~setupComplete /\ ~Ran("status")

\* C26: the commands a finish invokes are, in order, a beginning of
\* setup_save_profile, setup_save_hotkey, setup_save_api_key (with a
\* non-blank API key), setup_save_integration (with a vault path),
\* complete_setup; onComplete is called only when complete_setup has
\* resolved behind all of them; a rejected invoke sets the error, invokes
\* nothing more and does not call onComplete; saving is true exactly while
\* a finish is running.
C26_FinishOrder ==
    /\ [](/\ Len(issued) <= Len(ExpectedCalls(finishArgs))
          /\ issued = SubSeq(ExpectedCalls(finishArgs), 1, Len(issued))
          /\ saving <=> awaited # NoCommand)
    /\ [][ /\ OnCompleteCalled
                => /\ Ran("invokeResolved")
                   /\ awaited = "complete_setup"
                   /\ issued = ExpectedCalls(finishArgs)
                   /\ ~saving'
           /\ Ran("invokeRejected")
                => /\ setupError' # NoError
                   /\ issued' = issued
                   /\ awaited' = NoCommand
                   /\ ~saving'
                   /\ UNCHANGED <<setupComplete, userName>>
           /\ (issued' # issued /\ ~Ran("finish"))
                => /\ Ran("invokeResolved")
                   /\ saving
                   /\ issued' = Append(issued, awaited') ]_vars

\* A finish with an API key and a vault path has invoked the five commands
\* and called onComplete.
C26_Witness ==
    /\ lastOp.op = "invokeResolved"
    /\ setupComplete
    /\ ~saving
    /\ userName = << <<"a">> >>
    /\ issued = <<"setup_save_profile", "setup_save_hotkey", "setup_save_api_key",
                  "setup_save_integration", "complete_setup">>

\* The pairs of a step and the step behind it.
Forward ==
    { <<"welcome", "user">>, <<"user", "hotkey">>, <<"hotkey", "api">>,
      <<"api", "integrations">>, <<"integrations", "done">> }

\* C27: the step is one of the six steps; next goes one step forward and
\* stays on done, prev goes one step back and stays on welcome, and both
\* clear the error.
C27_Navigation ==
    /\ [](step \in {"welcome", "user", "hotkey", "api", "integrations", "done"})
    /\ [][ /\ Ran("next")
                => /\ <<step, step'>> \in Forward \/ (step = "done" /\ step' = "done")
                   /\ setupError' = NoError
           /\ Ran("prev")
                => /\ <<step', step>> \in Forward \/ (step = "welcome" /\ step' = "welcome")
                   /\ setupError' = NoError ]_vars

\* next was called on the step done and has left the wizard there.
C27_Witness ==
    /\ lastOp.op = "next"
    /\ lastOp.payload.text = <<"done">>
    /\ step = "done"
    /\ setupError = NoError

\* C28: the loading view is rendered until the setup-status check has
\* resolved or rejected, and never again; then the overlay and the widget
\* window render their component whatever the setup status, and any other
\* window renders the wizard when setup is not complete and the main window
\* when it is; a rejected check leaves setup not complete and ends loading.
C28_WindowRouting ==
    /\ [](/\ appIsLoading => Rendered = "loading"
          /\ (~appIsLoading /\ windowParam = "overlay") => Rendered = "OverlayWindow"
          /\ (~appIsLoading /\ windowParam = "widget") => Rendered = "WidgetWindow"
          /\ (~appIsLoading /\ windowParam \notin {"overlay", "widget"})
                => Rendered = IF setupComplete THEN "MainWindow" ELSE "SetupWizard")
    /\ [][ /\ Ran("statusFailed") => ~setupComplete' /\ ~appIsLoading'
           /\ appIsLoading' # appIsLoading
                => /\ Ran("status") \/ Ran("statusFailed")
                   /\ ~appIsLoading' ]_vars

\* The setup-status check of the overlay window has failed: setup counts as
\* not complete and the overlay is rendered.
C28_Witness ==
    /\ lastOp.op = "statusFailed"
    /\ windowParam = "overlay"
    /\ ~setupComplete
    /\ Rendered = "OverlayWindow"

====
